---- MODULE Spec2Model ----
(***************************************************************************)
(* Model of the guest init program (src/src/main.rs).                      *)
(*                                                                         *)
(* main() is one straight-line sequence of logging calls and system calls. *)
(* Each system call is wrapped by a helper (mkdir, mount, chdir, chroot)   *)
(* that turns a failure into an InitError; the call site either propagates *)
(* the error with `?` (main returns, the process exits) or discards it     *)
(* with `.ok()` (main goes on).  The kernel side is modelled by the mount  *)
(* table and the root / working directory of the process; the result of    *)
(* every system call is chosen by the environment.                         *)
(***************************************************************************)
EXTENDS Integers, Sequences, FiniteSets, TLC

VARIABLES
    pc,        \* index in Plan of the next statement of main
    status,    \* "running", or "exited" once main has returned
    err,       \* the InitError main returned, or NoError
    lastRes,   \* result of the last system call: "OK" or an errno
    calls,     \* the system calls issued so far, with where the kernel resolved them
    mounts,    \* the kernel's mount table
    root,      \* root directory of the process
    cwd,       \* working directory of the process
    logLevel,  \* the level selected by LOG_FILTER
    log        \* the messages written by the logger

vars == <<pc, status, err, lastRes, calls, mounts, root, cwd, logLevel, log>>

----------------------------------------------------------------------------
(* Values *)

None == <<>>
Some(x) == <<x>>

NoError == [kind |-> "None"]

Errnos == {"EEXIST", "ENOENT", "EPERM"}
Results == {"OK"} \cup Errnos

(* Mode bits (nix::sys::stat::Mode) *)
S_IRWXU == {"S_IRUSR", "S_IWUSR", "S_IXUSR"}
S_IRWXG == {"S_IRGRP", "S_IWGRP", "S_IXGRP"}
S_IRWXO == {"S_IROTH", "S_IWOTH", "S_IXOTH"}
ModeAll == S_IRWXU \cup S_IRWXG \cup S_IRWXO \cup {"S_ISUID", "S_ISGID", "S_ISVTX"}

chmod_0755 == S_IRWXU \cup {"S_IRGRP", "S_IXGRP", "S_IROTH", "S_IXOTH"}
chmod_0555 == {"S_IRUSR", "S_IXUSR", "S_IRGRP", "S_IXGRP", "S_IROTH", "S_IXOTH"}
chmod_1777 == S_IRWXU \cup S_IRWXG \cup S_IRWXO \cup {"S_ISVTX"}

common_mnt_flags == {"MS_NODEV", "MS_NOEXEC", "MS_NOSUID"}
common_cgroup_mnt_flags == {"MS_NODEV", "MS_NOEXEC", "MS_NOSUID", "MS_RELATIME"}

----------------------------------------------------------------------------
(* The statements of main *)

Stmt(op) ==
    [op |-> op, fatal |-> FALSE, source |-> None, target |-> "", fstype |-> None,
     flags |-> {}, data |-> None, path |-> "", mode |-> {}, level |-> "", msg |-> ""]

\* mkdir(path, mode)?        and   mkdir(path, mode).ok()
MkdirStep(path, mode) == [Stmt("mkdir") EXCEPT !.path = path, !.mode = mode, !.fatal = TRUE]
MkdirOk(path, mode) == [Stmt("mkdir") EXCEPT !.path = path, !.mode = mode]

\* mount(source, target, fstype, flags, data)?
MountStep(source, target, fstype, flags, data) ==
    [Stmt("mount") EXCEPT !.source = source, !.target = target, !.fstype = fstype,
                          !.flags = flags, !.data = data, !.fatal = TRUE]

\* chdir(path)?   chroot(path)?
ChdirStep(path) == [Stmt("chdir") EXCEPT !.path = path, !.fatal = TRUE]
ChrootStep(path) == [Stmt("chroot") EXCEPT !.path = path, !.fatal = TRUE]

\* symlinkat(target, None, linkpath).ok(): source holds the link's target text
SymlinkOk(target, linkpath) ==
    [Stmt("symlinkat") EXCEPT !.source = Some(target), !.path = linkpath]

\* info!(msg)   debug!(msg)
Info(msg) == [Stmt("log") EXCEPT !.level = "info", !.msg = msg]
Debug(msg) == [Stmt("log") EXCEPT !.level = "debug", !.msg = msg]

PlanDev ==
    << Info("Starting init..."),
       Debug("Mounting /dev"),
       MkdirOk("/dev", chmod_0755),
       MountStep(Some("devtmpfs"), "/dev", Some("devtmpfs"), {"MS_NOSUID"}, Some("mode=0755")) >>

PlanNewroot ==
    << MkdirStep("/newroot", chmod_0755),
       Debug("Mounting newroot fs"),
       MountStep(Some("/dev/vdb"), "/newroot", Some("ext4"), {"MS_RELATIME"}, None) >>

\* variant: devtmpfs mounted a second time instead of moved
PlanMoveDev_Remount ==
    << Debug("Mounting (move) /dev"),
       MkdirOk("/newroot/dev", chmod_0755),
       MountStep(Some("devtmpfs"), "/newroot/dev", Some("devtmpfs"), {"MS_NOSUID"},
                 Some("mode=0755")) >>

PlanMoveDev ==
    << Debug("Mounting (move) /dev"),
       MkdirOk("/newroot/dev", chmod_0755),
       MountStep(Some("/dev"), "/newroot/dev", None, {"MS_MOVE"}, None) >>

\* variant: the result of chroot discarded with .ok()
PlanSwitchRoot_ChrootUnchecked ==
    << Debug("Switching root"),
       ChdirStep("/newroot"),
       MountStep(Some("."), "/", None, {"MS_MOVE"}, None),
       [ChrootStep(".") EXCEPT !.fatal = FALSE],
       ChdirStep("/") >>

\* variant: chroot("/") instead of chroot(".")
PlanSwitchRoot_ChrootSlash ==
    << Debug("Switching root"),
       ChdirStep("/newroot"),
       MountStep(Some("."), "/", None, {"MS_MOVE"}, None),
       ChrootStep("/"),
       ChdirStep("/") >>

PlanSwitchRoot ==
    << Debug("Switching root"),
       ChdirStep("/newroot"),
       MountStep(Some("."), "/", None, {"MS_MOVE"}, None),
       ChrootStep("."),
       ChdirStep("/") >>

PlanDevMounts ==
    << Debug("Mounting /dev/pts"),
       MkdirOk("/dev/pts", chmod_0755),
       MountStep(Some("devpts"), "/dev/pts", Some("devpts"),
                 {"MS_NOEXEC", "MS_NOSUID", "MS_NOATIME"}, Some("mode=0620,gid=5,ptmxmode=666")),
       Debug("Mounting /dev/mqueue"),
       MkdirOk("/dev/mqueue", chmod_0755),
       MountStep(Some("mqueue"), "/dev/mqueue", Some("mqueue"), common_mnt_flags, None),
       Debug("Mounting /dev/shm"),
       MkdirOk("/dev/shm", chmod_1777),
       MountStep(Some("shm"), "/dev/shm", Some("tmpfs"), {"MS_NOSUID", "MS_NODEV"}, None),
       Debug("Mounting /dev/hugepages"),
       MkdirOk("/dev/hugepages", chmod_0755),
       MountStep(Some("hugetlbfs"), "/dev/hugepages", Some("hugetlbfs"),
                 {"MS_RELATIME"}, Some("pagesize=2M")) >>

\* variant: /run/lock created before /run is mounted
PlanProcSysRun_LockFirst ==
    << Debug("Mounting /proc"),
       MkdirOk("/proc", chmod_0555),
       MountStep(Some("proc"), "/proc", Some("proc"), common_mnt_flags, None),
       MountStep(Some("binfmt_misc"), "/proc/sys/fs/binfmt_misc", Some("binfmt_misc"),
                 common_mnt_flags \cup {"MS_RELATIME"}, None),
       Debug("Mounting /sys"),
       MkdirOk("/sys", chmod_0555),
       MountStep(Some("sys"), "/sys", Some("sysfs"), common_mnt_flags, None),
       Debug("Mounting /run"),
       MkdirOk("/run", chmod_0755),
       MkdirOk("/run/lock", ModeAll),
       MountStep(Some("run"), "/run", Some("tmpfs"), {"MS_NOSUID", "MS_NODEV"}, Some("mode=0755")) >>

PlanProcSysRun ==
    << Debug("Mounting /proc"),
       MkdirOk("/proc", chmod_0555),
       MountStep(Some("proc"), "/proc", Some("proc"), common_mnt_flags, None),
       MountStep(Some("binfmt_misc"), "/proc/sys/fs/binfmt_misc", Some("binfmt_misc"),
                 common_mnt_flags \cup {"MS_RELATIME"}, None),
       Debug("Mounting /sys"),
       MkdirOk("/sys", chmod_0555),
       MountStep(Some("sys"), "/sys", Some("sysfs"), common_mnt_flags, None),
       Debug("Mounting /run"),
       MkdirOk("/run", chmod_0755),
       MountStep(Some("run"), "/run", Some("tmpfs"), {"MS_NOSUID", "MS_NODEV"}, Some("mode=0755")),
       MkdirOk("/run/lock", ModeAll) >>

PlanSymlinks ==
    << SymlinkOk("/proc/self/fd", "/dev/fd"),
       SymlinkOk("/proc/self/fd/0", "/dev/stdin"),
       SymlinkOk("/proc/self/fd/1", "/dev/stdout"),
       SymlinkOk("/proc/self/fd/2", "/dev/stderr") >>

PlanRootDir ==
    << MkdirOk("/root", S_IRWXU) >>

PlanCgroupRoot ==
    << Debug("Mounting cgroup"),
       MountStep(Some("tmpfs"), "/sys/fs/cgroup", Some("tmpfs"),
                 {"MS_NOSUID", "MS_NOEXEC", "MS_NODEV"}, Some("mode=755")),
       Debug("Mounting cgroup2"),
       MkdirStep("/sys/fs/cgroup/unified", chmod_0555),
       MountStep(Some("cgroup2"), "/sys/fs/cgroup/unified", Some("cgroup2"),
                 common_mnt_flags \cup {"MS_RELATIME"}, Some("nsdelegate")) >>

\* one legacy controller: debug!, mkdir(dir)?, mount("cgroup", dir, "cgroup", flags, name)?
\* variant: the mount issued before the directory is created
CgroupV1_MountFirst(msg, dir, name) ==
    << Debug(msg),
       MountStep(Some("cgroup"), dir, Some("cgroup"), common_cgroup_mnt_flags, Some(name)),
       MkdirStep(dir, chmod_0555) >>

CgroupV1(msg, dir, name) ==
    << Debug(msg),
       MkdirStep(dir, chmod_0555),
       MountStep(Some("cgroup"), dir, Some("cgroup"), common_cgroup_mnt_flags, Some(name)) >>

PlanCgroupV1 ==
       CgroupV1("Mounting /sys/fs/cgroup/net_cls,net_prio",
                "/sys/fs/cgroup/net_cls,net_prio", "net_cls,net_prio")
    \o CgroupV1("Mounting /sys/fs/cgroup/hugetlb", "/sys/fs/cgroup/hugetlb", "hugetlb")
    \o CgroupV1("Mounting /sys/fs/cgroup/pids", "/sys/fs/cgroup/pids", "pids")
    \o CgroupV1("Mounting /sys/fs/cgroup/freezer", "/sys/fs/cgroup/freezer", "freezer")
    \o CgroupV1("Mounting /sys/fs/cgroup/cpu,cpuacct", "/sys/fs/cgroup/cpu,cpuacct", "cpu,cpuacct")
    \o CgroupV1("Mounting /sys/fs/cgroup/devices", "/sys/fs/cgroup/devices", "devices")
    \o CgroupV1("Mounting /sys/fs/cgroup/blkio", "/sys/fs/cgroup/blkio", "blkio")
    \o CgroupV1("Mounting cgroup/memory", "/sys/fs/cgroup/memory", "memory")
    \o CgroupV1("Mounting /sys/fs/cgroup/perf_event", "/sys/fs/cgroup/perf_event", "perf_event")
    \o CgroupV1("Mounting /sys/fs/cgroup/cpuset", "/sys/fs/cgroup/cpuset", "cpuset")

\* the body of main, in program order
Plan ==
    PlanDev \o PlanNewroot \o PlanMoveDev \o PlanSwitchRoot \o PlanDevMounts
    \o PlanProcSysRun \o PlanSymlinks \o PlanRootDir \o PlanCgroupRoot \o PlanCgroupV1

----------------------------------------------------------------------------
(* Paths, as the kernel walks them *)

Abs(comps) == [abs |-> TRUE, comps |-> comps]
Rel(comps) == [abs |-> FALSE, comps |-> comps]

CgroupRoot == <<"sys", "fs", "cgroup">>

\* a path string split at its "/" separators; a name without "/" is one component
NixPath(p) ==
    CASE p = "/" -> Abs(<<>>)
      [] p = "." -> Rel(<<>>)
      [] p = "/dev" -> Abs(<<"dev">>)
      [] p = "/dev/vdb" -> Abs(<<"dev", "vdb">>)
      [] p = "/dev/pts" -> Abs(<<"dev", "pts">>)
      [] p = "/dev/mqueue" -> Abs(<<"dev", "mqueue">>)
      [] p = "/dev/shm" -> Abs(<<"dev", "shm">>)
      [] p = "/dev/hugepages" -> Abs(<<"dev", "hugepages">>)
      [] p = "/dev/fd" -> Abs(<<"dev", "fd">>)
      [] p = "/dev/stdin" -> Abs(<<"dev", "stdin">>)
      [] p = "/dev/stdout" -> Abs(<<"dev", "stdout">>)
      [] p = "/dev/stderr" -> Abs(<<"dev", "stderr">>)
      [] p = "/newroot" -> Abs(<<"newroot">>)
      [] p = "/newroot/dev" -> Abs(<<"newroot", "dev">>)
      [] p = "/proc" -> Abs(<<"proc">>)
      [] p = "/proc/sys/fs/binfmt_misc" -> Abs(<<"proc", "sys", "fs", "binfmt_misc">>)
      [] p = "/proc/self/fd" -> Abs(<<"proc", "self", "fd">>)
      [] p = "/proc/self/fd/0" -> Abs(<<"proc", "self", "fd", "0">>)
      [] p = "/proc/self/fd/1" -> Abs(<<"proc", "self", "fd", "1">>)
      [] p = "/proc/self/fd/2" -> Abs(<<"proc", "self", "fd", "2">>)
      [] p = "/sys" -> Abs(<<"sys">>)
      [] p = "/run" -> Abs(<<"run">>)
      [] p = "/run/lock" -> Abs(<<"run", "lock">>)
      [] p = "/root" -> Abs(<<"root">>)
      [] p = "/sys/fs/cgroup" -> Abs(CgroupRoot)
      [] p = "/sys/fs/cgroup/unified" -> Abs(Append(CgroupRoot, "unified"))
      [] p = "/sys/fs/cgroup/net_cls,net_prio" -> Abs(Append(CgroupRoot, "net_cls,net_prio"))
      [] p = "/sys/fs/cgroup/hugetlb" -> Abs(Append(CgroupRoot, "hugetlb"))
      [] p = "/sys/fs/cgroup/pids" -> Abs(Append(CgroupRoot, "pids"))
      [] p = "/sys/fs/cgroup/freezer" -> Abs(Append(CgroupRoot, "freezer"))
      [] p = "/sys/fs/cgroup/cpu,cpuacct" -> Abs(Append(CgroupRoot, "cpu,cpuacct"))
      [] p = "/sys/fs/cgroup/devices" -> Abs(Append(CgroupRoot, "devices"))
      [] p = "/sys/fs/cgroup/blkio" -> Abs(Append(CgroupRoot, "blkio"))
      [] p = "/sys/fs/cgroup/memory" -> Abs(Append(CgroupRoot, "memory"))
      [] p = "/sys/fs/cgroup/perf_event" -> Abs(Append(CgroupRoot, "perf_event"))
      [] p = "/sys/fs/cgroup/cpuset" -> Abs(Append(CgroupRoot, "cpuset"))
      [] OTHER -> Rel(<<p>>)

----------------------------------------------------------------------------
(* The kernel: mount table and path resolution.                            *)
(* A location is [fs, path]: a filesystem (0 is the initial ramdisk root,  *)
(* i >= 1 is the filesystem of mounts[i]) and the components below its     *)
(* root.  mounts[i] is attached at location [parent, at].                  *)

InitRamfs == [fs |-> 0, path |-> <<>>]

MountsAt(mt, loc) == {i \in DOMAIN mt : mt[i].parent = loc.fs /\ mt[i].at = loc.path}

\* enter whatever is mounted on loc, and whatever is mounted on top of that
RECURSIVE Cross(_, _, _)
Cross(mt, loc, fuel) ==
    IF fuel = 0 \/ MountsAt(mt, loc) = {} THEN loc
    ELSE Cross(mt, [fs |-> CHOOSE i \in MountsAt(mt, loc) : \A j \in MountsAt(mt, loc) : j <= i,
                    path |-> <<>>], fuel - 1)

RECURSIVE Walk(_, _, _)
Walk(mt, loc, comps) ==
    IF comps = <<>> THEN loc
    ELSE Walk(mt, Cross(mt, [fs |-> loc.fs, path |-> Append(loc.path, Head(comps))], Len(mt)),
              Tail(comps))

\* absolute paths start at the process root, relative ones at its working directory
Resolve(mt, r, c, p) == Walk(mt, IF NixPath(p).abs THEN r ELSE c, NixPath(p).comps)

\* MS_MOVE needs a source that is the root of a mount, and a target outside of it
MoveAllowed(mt, r, c, s) ==
    /\ s.source # None
    /\ Resolve(mt, r, c, s.source[1]).path = <<>>
    /\ Resolve(mt, r, c, s.source[1]).fs >= 1
    /\ Resolve(mt, r, c, s.target).fs # Resolve(mt, r, c, s.source[1]).fs

\* the mount table after mount(2) has succeeded
DoMount(mt, r, c, s) ==
    IF "MS_MOVE" \in s.flags
    THEN [mt EXCEPT ![Resolve(mt, r, c, s.source[1]).fs] =
              [@ EXCEPT !.parent = Resolve(mt, r, c, s.target).fs,
                        !.at = Resolve(mt, r, c, s.target).path]]
    ELSE Append(mt, [source |-> s.source, fstype |-> s.fstype, flags |-> s.flags,
                     data |-> s.data,
                     parent |-> Resolve(mt, r, c, s.target).fs,
                     at |-> Resolve(mt, r, c, s.target).path])

----------------------------------------------------------------------------
(* InitError: what the wrappers build from a failed call *)

\* Option<&P> -> String: None becomes the empty string
SourceString(source) == IF source = None THEN "" ELSE source[1]

MkdirError(path, error) == [kind |-> "Mkdir", path |-> path, error |-> error]

\* variant: the two path fields exchanged
MountError_Swapped(source, target, error) ==
    [kind |-> "Mount", source |-> target, target |-> SourceString(source), error |-> error]

MountError(source, target, error) ==
    [kind |-> "Mount", source |-> SourceString(source), target |-> target, error |-> error]

ChdirError(path, error) == [kind |-> "Chdir", path |-> path, error |-> error]

ChrootError(path, error) == [kind |-> "Chroot", path |-> path, error |-> error]

----------------------------------------------------------------------------
(* The logger *)

\* env_logger filter: a message is written when the selected level admits its level
LevelRank(l) == CASE l = "error" -> 1 [] l = "info" -> 3 [] l = "debug" -> 4
Enabled_(level, filter) == LevelRank(level) <= LevelRank(filter)

LogFilters == {"error", "info", "debug"}

----------------------------------------------------------------------------
(* The program *)

Init ==
    /\ pc = 1
    /\ status = "running"
    /\ err = NoError
    /\ lastRes = "OK"
    /\ calls = <<>>
    /\ mounts = <<>>
    /\ root = InitRamfs
    /\ cwd = InitRamfs
    /\ logLevel \in LogFilters
    /\ log = <<>>

Running(op) == status = "running" /\ pc <= Len(Plan) /\ Plan[pc].op = op

\* `?` returns the error from main; `.ok()` drops it and goes on
Propagate(s, res, e) ==
    /\ lastRes' = res
    /\ IF res # "OK" /\ s.fatal
       THEN status' = "exited" /\ err' = e /\ pc' = pc
       ELSE status' = status /\ err' = err /\ pc' = pc + 1

Called(s, path) == calls' = Append(calls, [step |-> s, at |-> Resolve(mounts, root, cwd, path)])

Log ==
    /\ Running("log")
    /\ log' = IF Enabled_(Plan[pc].level, logLevel)
              THEN Append(log, [level |-> Plan[pc].level, msg |-> Plan[pc].msg])
              ELSE log
    /\ pc' = pc + 1
    /\ UNCHANGED <<status, err, lastRes, calls, mounts, root, cwd, logLevel>>

Mkdir ==
    /\ Running("mkdir")
    /\ \E res \in Results :
          /\ Propagate(Plan[pc], res, MkdirError(Plan[pc].path, res))
          /\ Called(Plan[pc], Plan[pc].path)
    /\ UNCHANGED <<mounts, root, cwd, logLevel, log>>

Mount ==
    /\ Running("mount")
    /\ \E res \in Results :
          /\ ("MS_MOVE" \in Plan[pc].flags /\ res = "OK") => MoveAllowed(mounts, root, cwd, Plan[pc])
          /\ Propagate(Plan[pc], res, MountError(Plan[pc].source, Plan[pc].target, res))
          /\ Called(Plan[pc], Plan[pc].target)
          /\ mounts' = IF res = "OK" THEN DoMount(mounts, root, cwd, Plan[pc]) ELSE mounts
    /\ UNCHANGED <<root, cwd, logLevel, log>>

Chdir ==
    /\ Running("chdir")
    /\ \E res \in Results :
          /\ Propagate(Plan[pc], res, ChdirError(Plan[pc].path, res))
          /\ Called(Plan[pc], Plan[pc].path)
          /\ cwd' = IF res = "OK" THEN Resolve(mounts, root, cwd, Plan[pc].path) ELSE cwd
    /\ UNCHANGED <<mounts, root, logLevel, log>>

Chroot ==
    /\ Running("chroot")
    /\ \E res \in Results :
          /\ Propagate(Plan[pc], res, ChrootError(Plan[pc].path, res))
          /\ Called(Plan[pc], Plan[pc].path)
          /\ root' = IF res = "OK" THEN Resolve(mounts, root, cwd, Plan[pc].path) ELSE root
    /\ UNCHANGED <<mounts, cwd, logLevel, log>>

Symlinkat ==
    /\ Running("symlinkat")
    /\ \E res \in Results :
          /\ Propagate(Plan[pc], res, NoError)
          /\ Called(Plan[pc], Plan[pc].path)
    /\ UNCHANGED <<mounts, root, cwd, logLevel, log>>

\* Ok(()) at the end of main
ReturnOk ==
    /\ status = "running"
    /\ pc = Len(Plan) + 1
    /\ status' = "exited"
    /\ UNCHANGED <<pc, err, lastRes, calls, mounts, root, cwd, logLevel, log>>

Next == Log \/ Mkdir \/ Mount \/ Chdir \/ Chroot \/ Symlinkat \/ ReturnOk

Spec == Init /\ [][Next]_vars

----------------------------------------------------------------------------
(* Properties *)

\* a is a proper prefix of b
ProperPrefix(a, b) == Len(a) < Len(b) /\ SubSeq(b, 1, Len(a)) = a

NCalls == Len(calls)
LastStep == calls[NCalls].step
LastAt == calls[NCalls].at

\* the path a statement's call is made on, as components
StepComps(s) == NixPath(IF s.op = "mount" THEN s.target ELSE s.path).comps

IsCall(i, op, path) ==
    /\ calls[i].step.op = op
    /\ (IF op = "mount" THEN calls[i].step.target ELSE calls[i].step.path) = path

\* the steps the bootstrap may not survive: every mount, the mkdir of /newroot and of
\* the cgroup directories, chdir and chroot
RequiredStep(s) ==
    \/ s.op \in {"mount", "chdir", "chroot"}
    \/ s.op = "mkdir" /\ (s.path = "/newroot" \/ ProperPrefix(CgroupRoot, NixPath(s.path).comps))

ReportOf(s, e) ==
    CASE s.op = "mkdir" -> [kind |-> "Mkdir", path |-> s.path, error |-> e]
      [] s.op = "chdir" -> [kind |-> "Chdir", path |-> s.path, error |-> e]
      [] s.op = "chroot" -> [kind |-> "Chroot", path |-> s.path, error |-> e]
      [] s.op = "mount" -> [kind |-> "Mount", source |-> s.source[1], target |-> s.target,
                            error |-> e]

\* C1: when the system call of a required step fails, main has returned an InitError
\* of that operation's kind carrying the paths of exactly that call and the errno.
C1_RequiredFailureReported ==
    (NCalls > 0 /\ lastRes # "OK" /\ RequiredStep(LastStep)) =>
        /\ status = "exited"
        /\ LastStep.op = "mount" => LastStep.source # None
        /\ err = ReportOf(LastStep, lastRes)

C1_Witness ==
    /\ status = "exited"
    /\ NCalls > 0 /\ IsCall(NCalls, "mount", "/") /\ lastRes = "EPERM"
    /\ err = [kind |-> "Mount", source |-> ".", target |-> "/", error |-> "EPERM"]

\* the device-node filesystem is in the mount table
DevMounted == \E m \in DOMAIN mounts : mounts[m].fstype = Some("devtmpfs")

\* a call that names something below /dev, or /dev itself as the source of a mount
UsesDev(s) ==
    \/ ProperPrefix(<<"dev">>, StepComps(s))
    \/ /\ s.op = "mount" /\ s.source # None
       /\ NixPath(s.source[1]).abs
       /\ NixPath(s.source[1]).comps # <<>>
       /\ Head(NixPath(s.source[1]).comps) = "dev"

\* the root filesystem: the ext4 filesystem of /dev/vdb
IsNewRoot(loc) ==
    /\ loc.fs \in DOMAIN mounts
    /\ loc.path = <<>>
    /\ mounts[loc.fs].fstype = Some("ext4")
    /\ mounts[loc.fs].source = Some("/dev/vdb")

\* all four steps of the root switch have taken effect
SwitchDone ==
    /\ IsNewRoot(root)
    /\ cwd = root
    /\ mounts[root.fs].parent = 0 /\ mounts[root.fs].at = <<>>

PreSwitchTargets == {"/dev", "/newroot", "/newroot/dev", "/"}
PostSwitchMount(s) == s.op = "mount" /\ s.target \notin PreSwitchTargets

\* the four calls of the root switch, one after the other, ending before call i
SwitchBefore(i) ==
    \E j \in 1..(i - 4) :
        /\ IsCall(j, "chdir", "/newroot")
        /\ IsCall(j + 1, "mount", "/") /\ calls[j + 1].step.source = Some(".")
        /\ IsCall(j + 2, "chroot", ".")
        /\ IsCall(j + 3, "chdir", "/")

\* C2: devtmpfs is mounted on /dev before any call uses a path under /dev, and the
\* root switch is complete before any post-switch mount is attempted.
C2_DevAndSwitchFirst ==
    \A i \in DOMAIN calls :
        /\ UsesDev(calls[i].step) =>
              /\ DevMounted
              /\ \E j \in 1..(i - 1) :
                    IsCall(j, "mount", "/dev") /\ calls[j].step.fstype = Some("devtmpfs")
        /\ PostSwitchMount(calls[i].step) =>
              /\ SwitchDone
              /\ SwitchBefore(i)
              /\ calls[i].at.fs # 0

C2_Witness ==
    /\ NCalls > 0 /\ IsCall(NCalls, "mount", "/dev/pts")
    /\ SwitchDone /\ DevMounted
    /\ \E i \in DOMAIN calls : IsCall(i, "mount", "/newroot") /\ UsesDev(calls[i].step)

\* C3: after a bootstrap in which every required step succeeded the process never
\* exits (main does not return).
C3_NeverExitsAfterSuccess == ~(status = "exited" /\ err = NoError)

\* C4: every mount is preceded by an attempt to create its target directory, and a
\* target directory that already exists (mkdir failing with EEXIST) never aborts the
\* bootstrap.
C4_TargetDirBestEffort ==
    /\ ~(status = "exited" /\ err.kind = "Mkdir" /\ err.error = "EEXIST")
    /\ \A i \in DOMAIN calls :
          calls[i].step.op = "mount" =>
              \E j \in 1..(i - 1) : IsCall(j, "mkdir", calls[i].step.target)

IsSwitchCall(c) ==
    \/ c.step.op \in {"chdir", "chroot"}
    \/ c.step.op = "mount" /\ c.step.target = "/"

SwitchSig(c) ==
    [op |-> c.step.op,
     args |-> IF c.step.op = "mount" THEN <<c.step.source, c.step.target, c.step.flags>>
              ELSE <<c.step.path>>]

ExpectedSwitch ==
    << [op |-> "chdir", args |-> <<"/newroot">>],
       [op |-> "mount", args |-> <<Some("."), "/", {"MS_MOVE"}>>],
       [op |-> "chroot", args |-> <<".">>],
       [op |-> "chdir", args |-> <<"/">>] >>

SwitchCalls == SelectSeq(calls, IsSwitchCall)

\* the filesystem fs lies in the tree below the process root
RECURSIVE Inside(_)
Inside(fs) == fs = root.fs \/ (fs \in DOMAIN mounts /\ mounts[fs].parent # fs /\ Inside(mounts[fs].parent))

\* C5: the root switch is chdir("/newroot"), move-mount "." onto "/", chroot("."),
\* chdir("/"), in this order and one directly after the other; each is attempted only
\* after the previous one took effect; chroot is called at most once; every call made
\* after the final chdir is resolved inside the new root.
C5_RootSwitch ==
    /\ Len(SwitchCalls) <= Len(ExpectedSwitch)
    /\ \A k \in DOMAIN SwitchCalls : SwitchSig(SwitchCalls[k]) = ExpectedSwitch[k]
    /\ Cardinality({i \in DOMAIN calls : calls[i].step.op = "chroot"}) <= 1
    /\ \A i \in DOMAIN calls :
          IsCall(i, "chdir", "/newroot") =>
              /\ i + 1 <= NCalls => (IsSwitchCall(calls[i + 1]) /\ IsNewRoot(cwd))
              /\ i + 2 <= NCalls =>
                    /\ IsSwitchCall(calls[i + 2])
                    /\ mounts[cwd.fs].parent = 0 /\ mounts[cwd.fs].at = <<>>
              /\ i + 3 <= NCalls => (IsSwitchCall(calls[i + 3]) /\ IsNewRoot(root))
              /\ \A k \in (i + 4)..NCalls :
                    /\ SwitchDone
                    /\ calls[k].at.fs # 0
                    /\ Inside(calls[k].at.fs)

C5_Witness ==
    /\ Len(SwitchCalls) = Len(ExpectedSwitch)
    /\ SwitchDone
    /\ NCalls > 0 /\ IsCall(NCalls, "mkdir", "/dev/pts")
    /\ LastAt.fs # root.fs /\ mounts[LastAt.fs].fstype = Some("devtmpfs")

\* the best-effort steps: the symlinks and the directory creations that are not required
BestEffortStep(s) == s.op = "symlinkat" \/ (s.op = "mkdir" /\ ~RequiredStep(s))

\* C6: a failed best-effort step is logged at low severity, and main goes on with
\* the next statement.
C6_BestEffortFailureLogged ==
    [][ ( /\ Len(calls') = Len(calls) + 1
          /\ BestEffortStep(calls'[Len(calls')].step)
          /\ lastRes' # "OK"
          /\ logLevel = "debug" )
        => ( /\ status' = "running"
             /\ pc' = pc + 1
             /\ Len(log') = Len(log) + 1 ) ]_vars

DevtmpfsMountCalls ==
    {i \in DOMAIN calls : calls[i].step.op = "mount" /\ calls[i].step.fstype = Some("devtmpfs")}

\* C7: devtmpfs is mounted at most once; /dev gets into the new root by a move of the
\* existing /dev mount onto /newroot/dev, made after /newroot is mounted and before
\* the root switch.
C7_DevMovedNotRemounted ==
    /\ Cardinality(DevtmpfsMountCalls) <= 1
    /\ Cardinality({m \in DOMAIN mounts : mounts[m].fstype = Some("devtmpfs")}) <= 1
    /\ \A i \in DOMAIN calls :
          IsCall(i, "mount", "/newroot/dev") =>
              /\ calls[i].step.flags = {"MS_MOVE"}
              /\ calls[i].step.source = Some("/dev")
              /\ \E m \in DOMAIN mounts : IsNewRoot([fs |-> m, path |-> <<>>])
              /\ \E j \in 1..(i - 1) : IsCall(j, "mount", "/newroot")
              /\ \A k \in 1..(i - 1) : ~IsSwitchCall(calls[k])
    /\ SwitchDone =>
          /\ Resolve(mounts, root, cwd, "/dev").path = <<>>
          /\ Resolve(mounts, root, cwd, "/dev").fs \in DOMAIN mounts
          /\ mounts[Resolve(mounts, root, cwd, "/dev").fs].fstype = Some("devtmpfs")
          /\ \A i \in DevtmpfsMountCalls : calls[i].step.target = "/dev"

C7_Witness ==
    /\ status = "exited" /\ err = NoError
    /\ SwitchDone
    /\ Cardinality(DevtmpfsMountCalls) = 1
    /\ mounts[Resolve(mounts, root, cwd, "/dev").fs].fstype = Some("devtmpfs")
    /\ \E i \in DOMAIN calls : IsCall(i, "mount", "/newroot/dev")

Controllers ==
    << "net_cls,net_prio", "hugetlb", "pids", "freezer", "cpu,cpuacct",
       "devices", "blkio", "memory", "perf_event", "cpuset" >>

IsV1Mount(c) == c.step.op = "mount" /\ c.step.fstype = Some("cgroup")
IsV2Mount(c) == c.step.op = "mount" /\ c.step.fstype = Some("cgroup2")
V1Mounts == SelectSeq(calls, IsV1Mount)

\* the filesystem fs is the tmpfs mounted on /sys/fs/cgroup (fs/cgroup of a sysfs)
IsCgroupTmpfs(fs) ==
    /\ fs \in DOMAIN mounts
    /\ mounts[fs].fstype = Some("tmpfs")
    /\ mounts[fs].at = <<"fs", "cgroup">>
    /\ mounts[fs].parent \in DOMAIN mounts
    /\ mounts[mounts[fs].parent].fstype = Some("sysfs")

\* C8: tmpfs on /sys/fs/cgroup first, then cgroup2 under it with nsdelegate, then the
\* ten legacy controllers in the listed order, each directory created immediately
\* before a cgroup filesystem is mounted on it with the controller name as data and
\* the flags NODEV | NOEXEC | NOSUID | RELATIME; no controller is mounted twice.
C8_CgroupHierarchy ==
    /\ Len(V1Mounts) <= Len(Controllers)
    /\ \A k \in DOMAIN V1Mounts :
          /\ V1Mounts[k].step.data = Some(Controllers[k])
          /\ StepComps(V1Mounts[k].step) = Append(CgroupRoot, Controllers[k])
          /\ V1Mounts[k].step.flags = {"MS_NODEV", "MS_NOEXEC", "MS_NOSUID", "MS_RELATIME"}
          /\ \A l \in DOMAIN V1Mounts : l # k => V1Mounts[l].step.data # V1Mounts[k].step.data
    /\ \A i \in DOMAIN calls :
          /\ IsV2Mount(calls[i]) =>
                /\ calls[i].step.data = Some("nsdelegate")
                /\ ProperPrefix(CgroupRoot, StepComps(calls[i].step))
                /\ IsCgroupTmpfs(calls[i].at.fs)
                /\ \E j \in 1..(i - 1) :
                      IsCall(j, "mount", "/sys/fs/cgroup") /\ calls[j].step.fstype = Some("tmpfs")
                /\ \A j \in 1..(i - 1) : ~IsV1Mount(calls[j])
          /\ IsV1Mount(calls[i]) =>
                /\ i > 1 /\ IsCall(i - 1, "mkdir", calls[i].step.target)
                /\ IsCgroupTmpfs(calls[i].at.fs)
                /\ \E j \in 1..(i - 1) : IsV2Mount(calls[j])
                /\ \E m \in DOMAIN mounts :
                      mounts[m].fstype = Some("cgroup2") /\ IsCgroupTmpfs(mounts[m].parent)

C8_Witness ==
    /\ Len(V1Mounts) = Len(Controllers)
    /\ Cardinality({m \in DOMAIN mounts : mounts[m].fstype = Some("cgroup")}) = Len(Controllers)
    /\ \E m \in DOMAIN mounts : mounts[m].fstype = Some("cgroup2")
    /\ lastRes = "OK"

\* C9: /root is created, then the open-file-descriptor ceiling is raised, and only
\* then is the tmpfs mounted on /sys/fs/cgroup.
C9_RlimitBeforeCgroup ==
    \A i \in DOMAIN calls :
        IsCall(i, "mount", "/sys/fs/cgroup") =>
            \E j \in 1..(i - 1) :
                /\ IsCall(j, "mkdir", "/root")
                /\ \E k \in (j + 1)..(i - 1) : calls[k].step.op = "setrlimit"

\* the mount points of the new root that later steps go below, with their filesystem
MountPoints ==
    { [dir |-> "/dev", fstype |-> "devtmpfs"],
      [dir |-> "/proc", fstype |-> "proc"],
      [dir |-> "/sys", fstype |-> "sysfs"],
      [dir |-> "/run", fstype |-> "tmpfs"],
      [dir |-> "/sys/fs/cgroup", fstype |-> "tmpfs"] }

\* dir is the root of a mounted filesystem of the given type
MountedOn(dir, fstype) ==
    /\ Resolve(mounts, root, cwd, dir).path = <<>>
    /\ Resolve(mounts, root, cwd, dir).fs \in DOMAIN mounts
    /\ mounts[Resolve(mounts, root, cwd, dir).fs].fstype = Some(fstype)

\* the filesystem fs is anc or is mounted somewhere below anc
RECURSIVE Below(_, _)
Below(fs, anc) ==
    fs = anc \/ (fs \in DOMAIN mounts /\ mounts[fs].parent # fs /\ Below(mounts[fs].parent, anc))

AfterSwitch(i) == \E j \in 1..(i - 1) : IsCall(j, "chdir", "/")

\* C10: after the root switch, a step that creates or mounts on a path is made only
\* once every mount point above that path is mounted, and it lands inside the
\* filesystem mounted there; the /proc/self/fd symlinks are made after /proc is mounted.
C10_ParentsMountedFirst ==
    \A i \in DOMAIN calls :
        AfterSwitch(i) =>
            /\ \A mp \in MountPoints :
                  ProperPrefix(NixPath(mp.dir).comps, StepComps(calls[i].step)) =>
                      /\ MountedOn(mp.dir, mp.fstype)
                      /\ Below(calls[i].at.fs, Resolve(mounts, root, cwd, mp.dir).fs)
            /\ calls[i].step.op = "symlinkat" =>
                  \A mp \in MountPoints :
                      ProperPrefix(NixPath(mp.dir).comps, NixPath(calls[i].step.source[1]).comps)
                          => MountedOn(mp.dir, mp.fstype)

C10_Witness ==
    /\ status = "exited" /\ err = NoError
    /\ \E i \in DOMAIN calls :
          /\ IsCall(i, "mkdir", "/run/lock")
          /\ mounts[calls[i].at.fs].source = Some("run")
    /\ \E i \in DOMAIN calls :
          /\ IsCall(i, "symlinkat", "/dev/fd")
          /\ mounts[calls[i].at.fs].fstype = Some("devtmpfs")
    /\ \E i \in DOMAIN calls :
          /\ IsCall(i, "mount", "/sys/fs/cgroup/cpuset")
          /\ IsCgroupTmpfs(calls[i].at.fs)
    /\ \A mp \in MountPoints : MountedOn(mp.dir, mp.fstype)

====
